---- MODULE Spec2Model ----
(***************************************************************************)
(* The KSQL database driver of solvedata/migrate (package ksql, mature     *)
(* revision): one driver instance talking over HTTP to a KSQL engine that  *)
(* holds the version log (stream "migrations") and the derived view        *)
(* (table "schema_migrations").                                            *)
(***************************************************************************)
EXTENDS Integers, Sequences, FiniteSets, TLC

\* ------------------------------------------------------------------ bounds
MaxWork == 2         \* events in the log plus entries of MigrationSequence

\* The arguments of the calls: the sentinel and two versions (enough to tell
\* the latest event from the greatest), one migration body (an entry of
\* MigrationSequence is that body or "DROP").
Versions == {-1, 0, 1}
Bodies == {"A"}

\* The connection URL handed to Open.
Urls == {"ksql://host:8088"}

\* strings.Replace(url, "ksql://", "http://", 1)
HttpUrlOf(url) ==
  CASE url = "ksql://host:8088" -> "http://host:8088"
    [] OTHER -> url

\* HttpUrl of the receiver of Open: the zero Ksql that init() registers, on
\* which database.Open calls Open.
ReceiverHttpUrl == ""

\* ------------------------------------------------------------- the engine
\* What the network and the engine do with one request:
\*   "ok"       delivered and answered: 200, or 400 for a statement the
\*              engine cannot accept in its state
\*   "reject"   delivered, the engine refuses the statement with status 400
\*   "refused"  transport error, the request never reached the engine
\*   "timeout"  transport error after the engine received the request
Nets == {"ok", "reject", "refused", "timeout"}

\* The answers modelled for the requests of Open and Run.  The answer lost
\* after delivery is kept for the INSERT of SetVersion, the statement whose
\* effect on the log the driver reads back.
SimpleNets == Nets \ {"timeout"}

\* What the query endpoint answers to the latest-version query:
\*   "ok" the materialised row (or nothing when the view has no row),
\*   "refused" transport error, the others are bodies whose first line is
\*   empty, not JSON, a JSON object without columns, a row holding null.
QueryNets == {"ok", "refused", "empty", "malformed", "norow", "nonnumber"}

Stmt(kind, version, dirty, body) ==
  [kind |-> kind, version |-> version, dirty |-> dirty, body |-> body]

ListTopics == Stmt("LIST TOPICS", -1, FALSE, "")
ListTables == Stmt("LIST TABLES", -1, FALSE, "")
CreateMigrationStreamSQL == Stmt("CREATE STREAM", -1, FALSE, "")
CreateMigrationTableSQL == Stmt("CREATE TABLE", -1, FALSE, "")
LatestSchemaMigrationSql == Stmt("SELECT", -1, FALSE, "")
InsertSQL(version, dirty) == Stmt("INSERT", version, dirty, "")
MigrationSQL(body) == Stmt("MIGRATION", -1, FALSE, body)

\* The engine accepts a statement only when the objects it needs exist and
\* the objects it creates do not.
Accepts(e, stmt) ==
  CASE stmt.kind = "CREATE STREAM" -> ~e.stream
    [] stmt.kind = "CREATE TABLE" -> e.stream /\ ~e.table
    [] stmt.kind = "INSERT" -> e.stream
    [] OTHER -> TRUE

\* The engine state after the statement was accepted.
Effect(e, stmt) ==
  CASE stmt.kind = "CREATE STREAM" -> [e EXCEPT !.stream = TRUE]
    [] stmt.kind = "CREATE TABLE" -> [e EXCEPT !.table = TRUE]
    [] stmt.kind = "INSERT" ->
         [e EXCEPT !.log = Append(@, [version |-> stmt.version, dirty |-> stmt.dirty])]
    [] OTHER -> e

Applied(e, stmt, net) == net \in {"ok", "timeout"} /\ Accepts(e, stmt)

Exec(e, stmt, net) == IF Applied(e, stmt, net) THEN Effect(e, stmt) ELSE e

Max(S) == CHOOSE x \in S : \A y \in S : y <= x

\* CREATE TABLE schema_migrations AS SELECT MAX(current_version) ... FROM
\* migrations WHERE NOT is_dirty GROUP BY type: the versions of the clean
\* events the view has consumed so far.
CleanVersions(e) ==
  IF e.table
    THEN {e.log[i].version : i \in {j \in 1 .. e.mat : ~e.log[j].dirty}}
    ELSE {}

ViewHasRow(e) == CleanVersions(e) # {}

ViewRow(e) == Max(CleanVersions(e))

\* Table names as the engine lists them (KSQL upper-cases identifiers).
ListedTables(e) == IF e.table THEN {"SCHEMA_MIGRATIONS"} ELSE {}

\* strings.ToLower on the names a listing can hold.
ToLower(name) ==
  CASE name = "SCHEMA_MIGRATIONS" -> "schema_migrations"
    [] OTHER -> name

\* ------------------------------------------------------------- transport
StatusCode(e, stmt, net) ==
  IF net = "ok" /\ Accepts(e, stmt) THEN 200 ELSE 400

\* http.Response.Status: the status line after the protocol version, with
\* the reason phrase when the server sends one.
StatusText(code, reason) ==
  IF reason
    THEN (IF code = 200 THEN "200 OK" ELSE "400 Bad Request")
    ELSE (IF code = 200 THEN "200" ELSE "400")

\* doQuery: POST the statement; a transport failure is (nil, err), anything
\* the engine answered is (resp, nil) whatever its status.
doQuery(e, endpoint, stmt, net, reason) ==
  LET code == StatusCode(e, stmt, net)
  IN [err |-> net \in {"refused", "timeout"},
      StatusCode |-> code,
      Status |-> StatusText(code, reason),
      tables |-> IF code = 200 /\ stmt.kind = "LIST TABLES"
                   THEN ListedTables(e) ELSE {},
      req |-> [endpoint |-> endpoint, kind |-> stmt.kind]]

runKsql(e, stmt, net, reason) == doQuery(e, "ksql", stmt, net, reason)

runQuery(e, stmt, qnet) ==
  doQuery(e, "query", stmt, IF qnet = "refused" THEN "refused" ELSE "ok", TRUE)

\* ------------------------------------------------------------ the decoder
\* JSON values of a row's column array.
Number(n) == [type |-> "number", val |-> n]
JsonNull == [type |-> "null", val |-> 0]

EmptyLine == [json |-> "empty", cols |-> <<>>]

\* The response body of the latest-version query, as a sequence of lines.
QueryBody(e, qnet) ==
  CASE qnet = "ok" ->
         IF ViewHasRow(e)
           THEN << [json |-> "object", cols |-> <<Number(ViewRow(e))>>] >>
           ELSE << >>
    [] qnet = "malformed" -> << [json |-> "malformed", cols |-> <<>>] >>
    [] qnet = "norow" -> << [json |-> "object", cols |-> <<>>] >>
    [] qnet = "nonnumber" -> << [json |-> "object", cols |-> <<JsonNull>>] >>
    [] OTHER -> << >>

\* responseBodyMigrationResult: json.Unmarshal of the first line.
responseBodyMigrationResult(body) ==
  LET line == IF body = << >> THEN EmptyLine ELSE Head(body)
  IN [err |-> line.json # "object", Columns |-> line.cols]

\* Variant: the dirty flag of the latest event the view has consumed.
LatestDirtyFromLog(e) == e.mat > 0 /\ e.log[e.mat].dirty

\* The dirty flag getLatestMigration returns with a decoded version (the
\* literal false: the view has no is_dirty column).
LatestDirty(e) == FALSE

\* getLatestMigration: (version, dirty, err); err is "nil", "error" or
\* "panic" (index out of range, failed type assertion).
getLatestMigration(e, qnet) ==
  LET resp == runQuery(e, LatestSchemaMigrationSql, qnet)
      result == responseBodyMigrationResult(QueryBody(e, qnet))
  IN IF resp.err \/ result.err
       THEN [version |-> -1, dirty |-> FALSE, err |-> "error"]
       ELSE IF Len(result.Columns) = 0 \/ Head(result.Columns).type # "number"
         THEN [version |-> -1, dirty |-> FALSE, err |-> "panic"]
         ELSE [version |-> Head(result.Columns).val, dirty |-> LatestDirty(e),
               err |-> "nil"]

\* ------------------------------------------------------------ the driver
VARIABLES
  engine,             \* the remote engine: [stream, table, log, mat]
  driver,             \* TRUE while the caller holds a driver returned by Open
  CurrentVersion,     \* Ksql.CurrentVersion
  IsDirty,            \* Ksql.IsDirty
  FirstRun,           \* Ksql.FirstRun
  MigrationSequence,  \* Ksql.MigrationSequence
  LastRunMigration,   \* Ksql.LastRunMigration ("nil" when unset)
  last,               \* the most recent call: arguments, the engine's answer
                      \* (net, code: status code, 0 when none), requests sent
                      \* with the answer (nets) and status code (codes) of
                      \* each, result
  trail,              \* history: bodies read by Run and "DROP" per Drop, in call order
  openPath            \* history: how the Open of this instance bootstrapped

vars == << engine, driver, CurrentVersion, IsDirty, FirstRun, MigrationSequence,
           LastRunMigration, last, trail, openPath >>

ksvars == << CurrentVersion, IsDirty, FirstRun, MigrationSequence, LastRunMigration >>

NoCall ==
  [op |-> "none", version |-> -1, dirty |-> FALSE, body |-> "", net |-> "none",
   err |-> "nil", code |-> 0, status |-> "", rversion |-> -1, rdirty |-> FALSE,
   sent |-> << >>, returned |-> FALSE,
   nets |-> << >>, codes |-> << >>, url |-> "", errUrl |-> "", held |-> FALSE]

\* The target the first Open meets: fresh, or bootstrapped by an earlier run.
\* The instance is the zero value registered by init() until Open builds one.
Init ==
  /\ engine \in {[stream |-> b, table |-> b, log |-> << >>, mat |-> 0] : b \in BOOLEAN}
  /\ driver = FALSE
  /\ CurrentVersion = 0
  /\ IsDirty = FALSE
  /\ FirstRun = FALSE
  /\ MigrationSequence = << >>
  /\ LastRunMigration = "nil"
  /\ last = NoCall
  /\ trail = << >>
  /\ openPath = "none"

Work == Len(engine.log) + Len(MigrationSequence)

\* The probe's verdict on an answer the engine gave.
ProbeOk(resp) == resp.Status # "200"

\* ensureUrlConection: (hasConnection, engine after, requests sent).
ensureUrlConection(e, net, reason) ==
  LET resp == runKsql(e, ListTopics, net, reason)
  IN [ok |-> IF resp.err THEN FALSE ELSE ProbeOk(resp),
      code |-> IF resp.err THEN 0 ELSE resp.StatusCode,
      eng |-> Exec(e, ListTopics, net),
      sent |-> << resp.req >>]

\* Variant: the creating path clears the flag.
FirstRunAfterCreateCleared(firstRun) == FALSE

\* FirstRun as ensureVersionTable leaves it on the path that created the
\* stream and the table (the code does not assign it there).
FirstRunAfterCreate(firstRun) == firstRun

\* strings.Contains(lowerCaseBody, "schema_migrations")
TableListed(resp) == \E name \in resp.tables : ToLower(name) = "schema_migrations"

\* Variant: a creation the engine refused counts as failed.
CreateFailedOnStatus(resp) == resp.err \/ resp.StatusCode # 200

\* ensureVersionTable's test after each creation statement (err != nil).
CreateFailed(resp) == resp.err

\* The status code the caller holds after a request (0: no response).
CodeOf(resp) == IF resp.err THEN 0 ELSE resp.StatusCode

\* ensureVersionTable: (err, FirstRun, engine after, requests sent, path).
ensureVersionTable(e, firstRun, n1, n2, n3) ==
  LET r1 == runKsql(e, ListTables, n1, TRUE)
      e1 == Exec(e, ListTables, n1)
      r2 == runKsql(e1, CreateMigrationStreamSQL, n2, TRUE)
      e2 == Exec(e1, CreateMigrationStreamSQL, n2)
      r3 == runKsql(e2, CreateMigrationTableSQL, n3, TRUE)
      e3 == Exec(e2, CreateMigrationTableSQL, n3)
  IN IF r1.err
       THEN [err |-> TRUE, FirstRun |-> firstRun, eng |-> e1,
             sent |-> << r1.req >>, codes |-> << CodeOf(r1) >>, path |-> "failed"]
     ELSE IF TableListed(r1)
       THEN [err |-> FALSE, FirstRun |-> FALSE, eng |-> e1,
             sent |-> << r1.req >>, codes |-> << CodeOf(r1) >>, path |-> "exists"]
     ELSE IF CreateFailed(r2)
       THEN [err |-> TRUE, FirstRun |-> firstRun, eng |-> e2,
             sent |-> << r1.req, r2.req >>,
             codes |-> << CodeOf(r1), CodeOf(r2) >>, path |-> "failed"]
     ELSE IF CreateFailed(r3)
       THEN [err |-> TRUE, FirstRun |-> firstRun, eng |-> e3,
             sent |-> << r1.req, r2.req, r3.req >>,
             codes |-> << CodeOf(r1), CodeOf(r2), CodeOf(r3) >>, path |-> "failed"]
     ELSE [err |-> FALSE, FirstRun |-> FirstRunAfterCreate(firstRun), eng |-> e3,
           sent |-> << r1.req, r2.req, r3.req >>,
           codes |-> << CodeOf(r1), CodeOf(r2), CodeOf(r3) >>, path |-> "created"]

\* The URL in Open's "Cannot connect to KSQL at %v" message, given the
\* HttpUrl of the receiver s and of the instance ks under construction.
ConnectErrorUrl(sHttpUrl, ksHttpUrl) == sHttpUrl

\* The answers the k-th request of ensureVersionTable can get: every answer
\* when it is sent, the placeholder alone when it is not.
BootNets(e, k, n1, n2) ==
  IF Len(ensureVersionTable(e, TRUE, n1, n2, "ok").sent) >= k THEN SimpleNets ELSE {"ok"}

\* Open: build the instance, probe the URL, bootstrap.  n0 .. n3 are the
\* answers to the requests Open sends; a request it does not send has the
\* placeholder answer "ok"; the server's status line lacks the reason phrase
\* only in the case where that changes the probe's verdict.  A run opens its
\* instance first: Open follows the start, another Open, a Close, or the loss
\* of the instance.
Open ==
  /\ ~driver \/ last.op \in {"Open", "Close"}
  /\ \E url \in Urls, n0 \in SimpleNets, reason \in BOOLEAN :
    LET probe == ensureUrlConection(engine, n0, reason)
    IN /\ n0 # "ok" => reason
       /\ CurrentVersion' = -1
       /\ IsDirty' = FALSE
       /\ MigrationSequence' = << >>
       /\ LastRunMigration' = "nil"
       /\ trail' = << >>
       /\ IF ~probe.ok
            THEN /\ engine' = probe.eng
                 /\ driver' = FALSE
                 /\ FirstRun' = TRUE
                 /\ openPath' = "none"
                 /\ last' = [NoCall EXCEPT !.op = "Open", !.net = n0,
                               !.url = url,
                               !.err = "Cannot connect to KSQL",
                               !.errUrl = ConnectErrorUrl(ReceiverHttpUrl, HttpUrlOf(url)),
                               !.code = probe.code,
                               !.sent = probe.sent,
                               !.nets = << n0 >>, !.codes = << probe.code >>]
            ELSE \E n1 \in SimpleNets :
                 \E n2 \in BootNets(probe.eng, 2, n1, "ok") :
                 \E n3 \in BootNets(probe.eng, 3, n1, n2) :
                   LET boot == ensureVersionTable(probe.eng, TRUE, n1, n2, n3)
                   IN /\ engine' = boot.eng
                      /\ driver' = ~boot.err
                      /\ FirstRun' = boot.FirstRun
                      /\ openPath' = IF boot.err THEN "none" ELSE boot.path
                      /\ last' = [NoCall EXCEPT !.op = "Open", !.net = n0,
                                    !.url = url,
                                    !.err = IF boot.err THEN "transport" ELSE "nil",
                                    !.errUrl = IF boot.err THEN HttpUrlOf(url) ELSE "",
                                    !.code = probe.code,
                                    !.returned = ~boot.err,
                                    !.sent = probe.sent \o boot.sent,
                                    !.nets = SubSeq(<< n0, n1, n2, n3 >>, 1,
                                                    1 + Len(boot.sent)),
                                    !.codes = << probe.code >> \o boot.codes]

Close ==
  /\ driver
  /\ last' = [NoCall EXCEPT !.op = "Close"]
  /\ UNCHANGED << engine, driver, ksvars, trail, openPath >>

\* What Lock returns; held tells whether the lock was taken and not released.
LockResult(held) == "nil"

\* Lock; held records that the call directly follows a Lock that returned nil.
Lock ==
  /\ driver
  /\ LET held == last.op = "Lock" /\ last.err = "nil"
     IN last' = [NoCall EXCEPT !.op = "Lock", !.held = held, !.err = LockResult(held)]
  /\ UNCHANGED << engine, driver, ksvars, trail, openPath >>

Unlock ==
  /\ driver
  /\ last' = [NoCall EXCEPT !.op = "Unlock"]
  /\ UNCHANGED << engine, driver, ksvars, trail, openPath >>

\* Variant: Run checks the transport only, never the status.
RunErrorTransportOnly(resp) == IF resp.err THEN "transport" ELSE "nil"

\* Run's verdict on the engine's answer: "nil" or the error it returns.
RunError(resp) ==
  IF resp.err THEN "transport"
  ELSE IF resp.StatusCode # 200 THEN "Unexpected response code"
  ELSE "nil"

\* Variant: Run puts the body in front of the sequence.
RunSequencePrepend(seq, body) == << body >> \o seq

\* MigrationSequence after Run has read the body.
RunSequence(seq, body) == Append(seq, body)

\* Run: read the body, record it, submit it.
Run ==
  /\ driver
  /\ Work < MaxWork
  /\ \E body \in Bodies, readOk \in BOOLEAN, net \in SimpleNets :
       IF ~readOk
         THEN /\ net = "ok"
              /\ last' = [NoCall EXCEPT !.op = "Run", !.body = body, !.err = "read"]
              /\ UNCHANGED << engine, driver, ksvars, trail, openPath >>
         ELSE LET resp == runKsql(engine, MigrationSQL(body), net, TRUE)
              IN /\ LastRunMigration' = body
                 /\ MigrationSequence' = RunSequence(MigrationSequence, body)
                 /\ engine' = Exec(engine, MigrationSQL(body), net)
                 /\ trail' = Append(trail, body)
                 /\ last' = [NoCall EXCEPT !.op = "Run", !.body = body, !.net = net,
                               !.err = RunError(resp),
                               !.code = IF resp.err THEN 0 ELSE resp.StatusCode,
                               !.status = IF RunError(resp) = "Unexpected response code"
                                            THEN resp.Status ELSE "",
                               !.sent = << resp.req >>]
                 /\ UNCHANGED << driver, CurrentVersion, IsDirty, FirstRun, openPath >>

\* Variant: the guard lets the sentinel through.
AppendsSentinel(version) == version >= -1

\* SetVersion appends an event only for these versions.
Appends(version) == version >= 0

\* Variant: SetVersion sends the INSERT again after a transport error.
SetVersionSendRetried(e, stmt, net) ==
  IF net \in {"refused", "timeout"}
    THEN Exec(Exec(e, stmt, net), stmt, "ok")
    ELSE Exec(e, stmt, net)

\* The engine after SetVersion's single s.runKsql(query).
SetVersionSend(e, stmt, net) == Exec(e, stmt, net)

\* Variant: SetVersion returns the transport error of the append.
SetVersionErrorSurfaced(resp) == IF resp.err THEN "transport" ELSE "nil"

\* What SetVersion returns after the append (return nil on both paths).
SetVersionError(resp) == "nil"

SetVersion ==
  /\ driver
  /\ \E version \in Versions, dirty \in BOOLEAN, net \in Nets :
       IF Appends(version)
         THEN LET stmt == InsertSQL(version, dirty)
                  resp == runKsql(engine, stmt, net, TRUE)
              IN /\ Work < MaxWork
                 /\ engine' = SetVersionSend(engine, stmt, net)
                 /\ CurrentVersion' = IF resp.err THEN CurrentVersion ELSE version
                 /\ IsDirty' = IF resp.err THEN IsDirty ELSE dirty
                 /\ last' = [NoCall EXCEPT !.op = "SetVersion", !.version = version,
                               !.dirty = dirty, !.net = net,
                               !.err = SetVersionError(resp),
                               !.code = IF resp.err THEN 0 ELSE resp.StatusCode,
                               !.sent = << resp.req >>]
                 /\ UNCHANGED << driver, FirstRun, MigrationSequence,
                                 LastRunMigration, trail, openPath >>
         ELSE /\ net = "ok"
              /\ last' = [NoCall EXCEPT !.op = "SetVersion", !.version = version,
                            !.dirty = dirty]
              /\ UNCHANGED << engine, driver, ksvars, trail, openPath >>

\* Version's result from what getLatestMigration returned.
VersionResult(m) ==
  IF m.err = "error"
    THEN [version |-> -1, dirty |-> FALSE, err |-> "nil"]
    ELSE m

\* Version as a function of the instance, the engine and the engine's answer:
\* the result and the requests sent.
VersionCall(firstRun, e, qnet) ==
  IF firstRun
    THEN [ret |-> [version |-> -1, dirty |-> FALSE, err |-> "nil"], sent |-> << >>]
    ELSE [ret |-> VersionResult(getLatestMigration(e, qnet)),
          sent |-> << runQuery(e, LatestSchemaMigrationSql, qnet).req >>]

Version ==
  /\ driver
  /\ \E qnet \in QueryNets :
       LET call == VersionCall(FirstRun, engine, qnet)
       IN /\ FirstRun => qnet = "ok"
          /\ last' = [NoCall EXCEPT !.op = "Version",
                        !.net = IF FirstRun THEN "none" ELSE qnet,
                        !.rversion = call.ret.version, !.rdirty = call.ret.dirty,
                        !.err = call.ret.err, !.sent = call.sent]
          /\ driver' = (call.ret.err # "panic")
          /\ UNCHANGED << engine, ksvars, trail, openPath >>

\* Variant: Drop forgets to reset the version.
DropVersionKept(version) == version

\* CurrentVersion after Drop.
DropVersion(version) == -1

\* MigrationSequence after Drop.
DropSequence(seq) == Append(seq, "DROP")

Drop ==
  /\ driver
  /\ Work < MaxWork
  /\ CurrentVersion' = DropVersion(CurrentVersion)
  /\ LastRunMigration' = "nil"
  /\ MigrationSequence' = DropSequence(MigrationSequence)
  /\ trail' = Append(trail, "DROP")
  /\ last' = [NoCall EXCEPT !.op = "Drop"]
  /\ UNCHANGED << engine, driver, IsDirty, FirstRun, openPath >>

\* The engine's view consumes the next event of the log.
Materialise ==
  /\ engine.table
  /\ engine.mat < Len(engine.log)
  /\ engine' = [engine EXCEPT !.mat = @ + 1]
  /\ UNCHANGED << driver, ksvars, last, trail, openPath >>

Next ==
  \/ Open
  \/ Close
  \/ Lock
  \/ Unlock
  \/ Run
  \/ SetVersion
  \/ Version
  \/ Drop
  \/ Materialise

Spec == Init /\ [][Next]_vars

\* ------------------------------------------------------------- the claims
\* A step of Next that is a call on the driver (Materialise is the only
\* other step, and it advances engine.mat).
CallStep == engine'.mat = engine.mat

ListTopicsReq == [endpoint |-> "ksql", kind |-> "LIST TOPICS"]

Kinds(sent) == {sent[i].kind : i \in 1 .. Len(sent)}

Success(code) == code \in 200 .. 299

\* C1: after a SetVersion(v, false) the engine accepted, and once the view
\* has consumed every event, a Version() whose query is answered returns
\* (v, false) with no error.
C1_RoundTrip ==
  [][ ( /\ CallStep
        /\ last.op = "SetVersion" /\ last.version >= 0 /\ ~last.dirty
        /\ last.code = 200
        /\ engine.table /\ engine.mat = Len(engine.log)
        /\ last'.op = "Version" /\ last'.net \in {"ok", "none"} )
      => ( /\ last'.rversion = last.version
           /\ last'.rdirty = FALSE
           /\ last'.err = "nil" ) ]_vars

\* C2: a bootstrap that directly follows a bootstrap which completed without
\* error issues only the LIST TABLES listing, no CREATE STREAM and no CREATE
\* TABLE.
C2_BootstrapIdempotent ==
  [][ ( /\ CallStep
        /\ last.op = "Open" /\ last.err = "nil"
        /\ last'.op = "Open" /\ "LIST TABLES" \in Kinds(last'.sent) )
      => Kinds(last'.sent) \cap {"CREATE STREAM", "CREATE TABLE"} = {} ]_vars

\* C3: while FirstRun is true on a driver instance, the log holds no version
\* event.
C3_FirstRunImpliesNoEvent ==
  (driver /\ FirstRun) => engine.log = << >>

\* C4: when FirstRun is false and the latest-version query fails in transport
\* or its body cannot be decoded, Version() returns a non-nil error.
C4_VersionSurfacesFailure ==
  (last.op = "Version" /\ last.net \in {"refused", "empty", "malformed"})
    => last.err # "nil"

\* C5: on an instance whose Open created the log and the view (no version
\* table was listed), Version() returns (-1, false, nil) and sends no request.
C5_FirstRunFastPath ==
  (last.op = "Version" /\ openPath = "created")
    => ( /\ last.rversion = -1
         /\ last.rdirty = FALSE
         /\ last.err = "nil"
         /\ last.sent = << >> )

C5_Witness ==
  /\ last.op = "Version"
  /\ openPath = "created"
  /\ engine.log = << >>
  /\ last.sent = << >>
  /\ last.rversion = -1

\* C6: SetVersion with a version below 0 sends nothing, appends nothing,
\* leaves the instance's fields unchanged and returns nil; Version() answers
\* after it as it would have before it, whatever the engine replies.
C6_SentinelNoOp ==
  [][ ( /\ CallStep
        /\ last'.op = "SetVersion" /\ last'.version < 0 )
      => ( /\ last'.sent = << >>
           /\ last'.err = "nil"
           /\ engine' = engine
           /\ UNCHANGED << CurrentVersion, IsDirty, FirstRun, MigrationSequence >>
           /\ \A qnet \in QueryNets :
                VersionCall(FirstRun', engine', qnet) = VersionCall(FirstRun, engine, qnet) ) ]_vars

C6_Witness ==
  /\ last.op = "SetVersion"
  /\ last.version < 0
  /\ last.dirty
  /\ engine.log # << >>
  /\ CurrentVersion >= 0

\* C7: MigrationSequence is, in call order, the body of every Run call that
\* read its body (whether or not the submission succeeded) and "DROP" for
\* every Drop call; no other call changes it.
C7_Sequencing == MigrationSequence = trail

C7_Witness ==
  /\ Len(MigrationSequence) = 2
  /\ MigrationSequence[1] # MigrationSequence[2]
  /\ \E i \in 1 .. 2 : MigrationSequence[i] \in Bodies
  /\ last.op = "Run"
  /\ last.err # "nil"

\* C8: a Run whose submission the engine answers with a non-2xx status
\* returns an error carrying that status; Run returns nil only when the
\* statement was submitted and the answer was not a non-2xx status.
C8_RunSurfacesStatus ==
  last.op = "Run" =>
    /\ (last.code # 0 /\ ~Success(last.code))
         => (last.err = "Unexpected response code"
             /\ last.status = StatusText(last.code, TRUE))
    /\ last.err = "nil"
         => (last.sent = << [endpoint |-> "ksql", kind |-> "MIGRATION"] >>
             /\ Success(last.code))

C8_Witness ==
  /\ last.op = "Run"
  /\ last.code = 400
  /\ last.err = "Unexpected response code"
  /\ last.status = "400 Bad Request"

\* C9: Drop sends no request and leaves the engine as it was; it sets
\* CurrentVersion to -1, appends exactly one "DROP" to MigrationSequence and
\* returns nil.
C9_DropLocalOnly ==
  [][ (CallStep /\ last'.op = "Drop")
      => ( /\ last'.sent = << >>
           /\ last'.err = "nil"
           /\ engine' = engine
           /\ CurrentVersion' = -1
           /\ MigrationSequence' = Append(MigrationSequence, "DROP")
           /\ UNCHANGED << IsDirty, FirstRun >> ) ]_vars

C9_Witness ==
  /\ last.op = "Drop"
  /\ engine.log # << >>
  /\ CurrentVersion = -1
  /\ MigrationSequence # << >>

\* C10: an Open whose probe fails, by transport error or by a non-success
\* status, returns an error and no driver and sends nothing after the probe.
C10_OpenAbortsOnFailedProbe ==
  (last.op = "Open" /\ (last.code = 0 \/ ~Success(last.code)))
    => ( /\ ~last.returned
         /\ last.err # "nil"
         /\ last.sent = << ListTopicsReq >> )

Pos(sent, kind) == {i \in 1 .. Len(sent) : sent[i].kind = kind}

\* C11: bootstrap issues CREATE TABLE only after a CREATE STREAM that
\* succeeded, and an Open in which a creation statement failed (transport
\* error or non-success status) returns an error and no driver.
C11_CreationOrderAndFailure ==
  last.op = "Open" =>
    /\ \A t \in Pos(last.sent, "CREATE TABLE") :
         \E c \in Pos(last.sent, "CREATE STREAM") : c < t /\ Success(last.codes[c])
    /\ (\E i \in Pos(last.sent, "CREATE STREAM") \cup Pos(last.sent, "CREATE TABLE") :
          ~Success(last.codes[i]))
         => (~last.returned /\ last.err # "nil")

\* C12: a Lock() called while the lock is held (here: directly after a Lock
\* that returned nil, with no Unlock between) returns LockedError.
C12_LockExcludes ==
  (last.op = "Lock" /\ last.held) => last.err = "LockedError"

\* C13: the error of a failed Open names the HTTP URL this Open attempted.
C13_OpenErrorNamesEndpoint ==
  (last.op = "Open" /\ last.err # "nil") => last.errUrl = HttpUrlOf(last.url)

\* The positions of the non-dirty events of a log.
CleanEvents(log) == {i \in 1 .. Len(log) : ~log[i].dirty}

\* C14: when FirstRun is false, the view has consumed every event and the
\* log holds a non-dirty event, a Version() whose query is answered returns
\* the version of the most recently appended non-dirty event.
C14_LatestEventReadBack ==
  [][ ( /\ CallStep
        /\ last'.op = "Version" /\ last'.net = "ok"
        /\ ~FirstRun
        /\ engine.table /\ engine.mat = Len(engine.log)
        /\ CleanEvents(engine.log) # {} )
      => ( /\ last'.err = "nil"
           /\ last'.rversion = engine.log[Max(CleanEvents(engine.log))].version ) ]_vars

\* C15: a Version() called once the log holds an event sends exactly one
\* query; when the view has consumed every event and the query is answered,
\* it returns the up-to-date value, the version of the latest non-dirty
\* event, and so does every later Version() while no event is appended.
C15_OneQueryThenUpToDate ==
  [][ ( /\ CallStep
        /\ last'.op = "Version"
        /\ engine.log # << >> )
      => ( /\ Len(last'.sent) = 1
           /\ ( /\ engine.table /\ engine.mat = Len(engine.log)
                /\ last'.net = "ok"
                /\ CleanEvents(engine.log) # {} )
              => ( /\ VersionCall(FirstRun', engine', "ok") = VersionCall(FirstRun, engine, "ok")
                   /\ last'.rversion
                        = engine.log[Max(CleanEvents(engine.log))].version ) ) ]_vars

\* C16: SetVersion returns nil for every version, dirty value and outcome of
\* the append; when the append fails in transport, CurrentVersion and IsDirty
\* keep their values.
C16_SetVersionAlwaysNil ==
  [][ ( /\ CallStep
        /\ last'.op = "SetVersion" )
      => ( /\ last'.err = "nil"
           /\ last'.net \in {"refused", "timeout"}
                => UNCHANGED << CurrentVersion, IsDirty >> ) ]_vars

C16_Witness ==
  /\ last.op = "SetVersion"
  /\ last.net = "timeout"
  /\ last.dirty
  /\ last.err = "nil"
  /\ engine.log # << >>
  /\ CurrentVersion # last.version
  /\ ~IsDirty

\* C17: an Open that finds the stream without the table (an earlier
\* bootstrap stopped between the two), whose requests are all answered and
\* whose probe lets it proceed, returns a driver and leaves the stream and
\* the table present; its CREATE STREAM is refused by the engine, so no
\* second log is created and the events of the log are kept.
C17_RecoversPartialBootstrap ==
  [][ ( /\ CallStep
        /\ last'.op = "Open"
        /\ engine.stream /\ ~engine.table
        /\ \A i \in 1 .. Len(last'.nets) : last'.nets[i] = "ok"
        /\ Len(last'.sent) > 1 )
      => ( /\ last'.returned /\ last'.err = "nil"
           /\ engine'.stream /\ engine'.table
           /\ engine'.log = engine.log
           /\ Pos(last'.sent, "CREATE TABLE") # {}
           /\ \A c \in Pos(last'.sent, "CREATE STREAM") : last'.codes[c] = 400 ) ]_vars

C17_Witness ==
  /\ last.op = "Open"
  /\ last.nets = << "ok", "ok", "ok", "ok" >>
  /\ last.codes = << 200, 200, 400, 200 >>
  /\ last.returned
  /\ engine.stream /\ engine.table

\* C18: a SetVersion call sends at most one request, an INSERT, and leaves
\* the log as it was or with its own (version, dirty) appended at the end;
\* no other call changes the log.  The log is thus a subsequence of the
\* calls' events, in call order, without duplicates of a call.
C18_WriteOrderNoRetry ==
  [][ CallStep
      => IF last'.op = "SetVersion"
           THEN /\ Len(last'.sent) <= 1
                /\ Kinds(last'.sent) \subseteq {"INSERT"}
                /\ \/ engine'.log = engine.log
                   \/ /\ last'.version >= 0
                      /\ engine'.log = Append(engine.log, [version |-> last'.version,
                                                           dirty |-> last'.dirty])
           ELSE engine'.log = engine.log ]_vars

C18_Witness ==
  /\ last.op = "SetVersion"
  /\ last.net = "timeout"
  /\ Len(engine.log) = 2
  /\ engine.log[2] = [version |-> last.version, dirty |-> last.dirty]
  /\ engine.log[1].version > engine.log[2].version

\* C19: no Version() result has dirty = true, whatever events the log holds,
\* a latest event written dirty included.
C19_VersionNeverDirty ==
  last.op = "Version" => ~last.rdirty

C19_Witness ==
  /\ last.op = "Version"
  /\ last.net = "ok"
  /\ last.err = "nil"
  /\ last.rversion >= 0
  /\ ~last.rdirty
  /\ engine.mat = Len(engine.log)
  /\ engine.log[Len(engine.log)].dirty
  /\ IsDirty

\* C20: Version() completes normally (a result or an error, no crash) for
\* every body the engine can answer the latest-version query with.
C20_VersionNeverCrashes ==
  last.op = "Version" => last.err # "panic"

====
